---- MODULE Spec2Model ----
(***************************************************************************)
(* Model of menhera-inet: IPv4/IPv6 targets (address + optional prefix),   *)
(* the InetTarget union, and DnsHostname validation / resolution.          *)
(*                                                                         *)
(* Encodings                                                               *)
(*   u8            integer 0..255                                          *)
(*   u32           sequence of 32 bits, most significant first             *)
(*   [u8; N]       sequence of N bytes                                     *)
(*   Option<T>     <<>> (None) or <<x>> (Some(x))                          *)
(*   Result<T,E>   [tag |-> "Ok" | "Err" | "Panic", val |-> ...]           *)
(*   &str          sequence of one-character strings                       *)
(***************************************************************************)
EXTENDS Integers, Sequences, FiniteSets, TLC

VARIABLES op, arg, res, obs, pc, attempts

vars == <<op, arg, res, obs, pc, attempts>>

(***************************************************************************)
(* Option / Result                                                         *)
(***************************************************************************)
None == <<>>
Some(x) == <<x>>
IsSome(o) == Len(o) = 1
Unwrap(o) == o[1]

Ok(v) == [tag |-> "Ok", val |-> v]
Err(e) == [tag |-> "Err", val |-> e]
Panic(why) == [tag |-> "Panic", val |-> why]
IsOk(r) == r.tag = "Ok"
IsErr(r) == r.tag = "Err"
IsPanic(r) == r.tag = "Panic"

(***************************************************************************)
(* Program constants                                                       *)
(***************************************************************************)
V4Bits == 32
V6Bits == 128
V4Bytes == 4
V6Bytes == 16
U8Max == 255
LabelMidMax == 61

U8 == 0..U8Max

(***************************************************************************)
(* Bit and byte arithmetic                                                 *)
(***************************************************************************)
RECURSIVE Pow2(_)
Pow2(n) == IF n = 0 THEN 1 ELSE 2 * Pow2(n - 1)

RECURSIVE ByteAnd(_, _, _)
\* a & b on the low n bits
ByteAnd(a, b, n) ==
    IF n = 0 THEN 0
    ELSE (a % 2) * (b % 2) + 2 * ByteAnd(a \div 2, b \div 2, n - 1)

AllOnes32 == [i \in 1..V4Bits |-> 1]
Zero32 == [i \in 1..V4Bits |-> 0]

\* u32::checked_shr: None when the shift amount is >= 32
CheckedShr32(x, n) ==
    IF n >= V4Bits THEN None
    ELSE Some([i \in 1..V4Bits |-> IF i <= n THEN 0 ELSE x[i - n]])

UnwrapOr(o, d) == IF IsSome(o) THEN Unwrap(o) ELSE d

Not32(x) == [i \in 1..V4Bits |-> 1 - x[i]]

RECURSIVE BitsValue(_, _, _)
\* value of bits x[lo..hi], most significant first
BitsValue(x, lo, hi) ==
    IF lo > hi THEN 0 ELSE 2 * BitsValue(x, lo, hi - 1) + x[hi]

ToBeBytes32(x) == [k \in 1..V4Bytes |-> BitsValue(x, 8 * (k - 1) + 1, 8 * k)]

\* u8 << k: panics (overflow check) when k >= 8, else drops the high bits
Shl8(x, k) ==
    IF k >= 8 THEN Panic("shl overflow") ELSE Ok((x * Pow2(k)) % (U8Max + 1))

(***************************************************************************)
(* ipv4.rs                                                                 *)
(***************************************************************************)
ipv4_subnet_mask(prefix_len) ==
    ToBeBytes32(Not32(UnwrapOr(CheckedShr32(AllOnes32, prefix_len), Zero32)))

\* bug: the mask is never applied
Mut_ipv4_network_address(ip, prefix_len) == ip

ipv4_network_address(ip, prefix_len) ==
    LET mask == ipv4_subnet_mask(prefix_len)
    IN  [i \in 1..V4Bytes |-> ByteAnd(ip[i], mask[i], 8)]

Ipv4Error == "Ipv4Error"

Target(ip, prefix_len) == [ip |-> ip, prefix_len |-> prefix_len]

Ipv4Target_new(ip, prefix_len) ==
    IF IsSome(prefix_len) /\ Unwrap(prefix_len) > V4Bits THEN Err(Ipv4Error)
    ELSE IF IsSome(prefix_len)
            /\ ip # ipv4_network_address(ip, Unwrap(prefix_len))
         THEN Err(Ipv4Error)
    ELSE Ok(Target(ip, prefix_len))

\* ipnet::Ipv4Net::new: fails for a prefix above 32, else keeps (addr, prefix)
Ipv4Net_new(addr, prefix_len) ==
    IF prefix_len > V4Bits THEN Err("PrefixLenError")
    ELSE Ok([addr |-> addr, prefix_len |-> prefix_len])

Ipv4Target_net(t) ==
    IF ~IsSome(t.prefix_len) THEN Ok(None)
    ELSE LET p == Unwrap(t.prefix_len)
             n == Ipv4Net_new(ipv4_network_address(t.ip, p), p)
         IN  IF IsOk(n) THEN Ok(Some(n.val)) ELSE Panic("unwrap on Err")

(***************************************************************************)
(* ipv6.rs                                                                 *)
(***************************************************************************)
\* bug: the partial byte is shifted by the remainder, not by 8 - remainder
Mut_ipv6_subnet_mask(prefix_len) ==
    LET full == prefix_len \div 8
        rem == prefix_len % 8
        sh == Shl8(U8Max, rem)
    IN  IF full > V6Bytes THEN Panic("index out of bounds")
        ELSE IF rem # 0 /\ full >= V6Bytes THEN Panic("index out of bounds")
        ELSE Ok([i \in 1..V6Bytes |->
                    IF i <= full THEN U8Max
                    ELSE IF i = full + 1 /\ rem # 0 THEN sh.val
                    ELSE 0])

\* The mask is a Result: an index past the 16 bytes or a shift by 8 panics.
ipv6_subnet_mask(prefix_len) ==
    LET full == prefix_len \div 8
        rem == prefix_len % 8
        sh == Shl8(U8Max, 8 - rem)
    IN  IF full > V6Bytes THEN Panic("index out of bounds")
        ELSE IF rem # 0 /\ full >= V6Bytes THEN Panic("index out of bounds")
        ELSE IF rem # 0 /\ IsPanic(sh) THEN sh
        ELSE Ok([i \in 1..V6Bytes |->
                    IF i <= full THEN U8Max
                    ELSE IF i = full + 1 /\ rem # 0 THEN sh.val
                    ELSE 0])

ipv6_network_address(ip, prefix_len) ==
    LET mask == ipv6_subnet_mask(prefix_len)
    IN  IF IsPanic(mask) THEN mask
        ELSE Ok([i \in 1..V6Bytes |-> ByteAnd(ip[i], mask.val[i], 8)])

Ipv6Error == "Ipv6Error"

\* bug: the prefix is not checked against 128 before the mask is computed
Mut_Ipv6Target_new(ip, prefix_len) ==
    IF ~IsSome(prefix_len) THEN Ok(Target(ip, prefix_len))
    ELSE LET network == ipv6_network_address(ip, Unwrap(prefix_len))
         IN  IF IsPanic(network) THEN network
             ELSE IF ip # network.val THEN Err(Ipv6Error)
             ELSE Ok(Target(ip, prefix_len))

Ipv6Target_new(ip, prefix_len) ==
    IF IsSome(prefix_len) /\ Unwrap(prefix_len) > V6Bits THEN Err(Ipv6Error)
    ELSE IF ~IsSome(prefix_len) THEN Ok(Target(ip, prefix_len))
    ELSE LET network == ipv6_network_address(ip, Unwrap(prefix_len))
         IN  IF IsPanic(network) THEN network
             ELSE IF ip # network.val THEN Err(Ipv6Error)
             ELSE Ok(Target(ip, prefix_len))

\* ipnet::Ipv6Net::new: fails for a prefix above 128
Ipv6Net_new(addr, prefix_len) ==
    IF prefix_len > V6Bits THEN Err("PrefixLenError")
    ELSE Ok([addr |-> addr, prefix_len |-> prefix_len])

Ipv6Target_net(t) ==
    IF ~IsSome(t.prefix_len) THEN Ok(None)
    ELSE LET p == Unwrap(t.prefix_len)
             network == ipv6_network_address(t.ip, p)
         IN  IF IsPanic(network) THEN network
             ELSE LET n == Ipv6Net_new(network.val, p)
                  IN  IF IsOk(n) THEN Ok(Some(n.val))
                      ELSE Panic("unwrap on Err")

(***************************************************************************)
(* Text: std's number and address formatting and parsing                   *)
(***************************************************************************)
DigitChars == <<"0", "1", "2", "3", "4", "5", "6", "7", "8", "9",
                "a", "b", "c", "d", "e", "f">>
UpperHex == <<"A", "B", "C", "D", "E", "F">>

\* char::to_digit(radix): the digit's value, or -1
ToDigit(c, radix) ==
    IF \E i \in 1..radix : DigitChars[i] = c
    THEN (CHOOSE i \in 1..radix : DigitChars[i] = c) - 1
    ELSE IF radix = 16 /\ \E i \in 1..6 : UpperHex[i] = c
    THEN (CHOOSE i \in 1..6 : UpperHex[i] = c) + 9
    ELSE -1

DropFirst(s, n) == SubSeq(s, n + 1, Len(s))

RECURSIVE FmtRadix(_, _)
\* {} / {:x} of an unsigned integer: no sign, no leading zeros
FmtRadix(n, radix) ==
    IF n < radix THEN <<DigitChars[n + 1]>>
    ELSE FmtRadix(n \div radix, radix) \o <<DigitChars[(n % radix) + 1]>>

DecStr(n) == FmtRadix(n, 10)
HexStr(n) == FmtRadix(n, 16)

RECURSIVE Join(_, _)
Join(parts, sep) ==
    IF Len(parts) = 0 THEN <<>>
    ELSE IF Len(parts) = 1 THEN parts[1]
    ELSE parts[1] \o <<sep>> \o Join(Tail(parts), sep)

RECURSIVE Split(_, _)
\* str::split(sep): always at least one piece
Split(s, sep) ==
    IF \A i \in 1..Len(s) : s[i] # sep THEN <<s>>
    ELSE LET k == CHOOSE i \in 1..Len(s) :
                     s[i] = sep /\ \A j \in 1..(i - 1) : s[j] # sep
         IN  <<SubSeq(s, 1, k - 1)>> \o Split(DropFirst(s, k), sep)

RECURSIVE ParseUnsigned(_, _, _)
\* the digit loop of from_str_radix with checked arithmetic; -1 on failure
ParseUnsigned(s, acc, max) ==
    IF Len(s) = 0 THEN acc
    ELSE LET d == ToDigit(s[1], 10)
         IN  IF d < 0 THEN -1
             ELSE IF acc * 10 + d > max THEN -1
             ELSE ParseUnsigned(Tail(s), acc * 10 + d, max)

\* <u8 as FromStr>::from_str(s).ok()
ParseU8(s) ==
    IF Len(s) = 0 THEN None
    ELSE IF Len(s) = 1 /\ s[1] \in {"+", "-"} THEN None
    ELSE LET digits == IF s[1] = "+" THEN Tail(s) ELSE s
             v == ParseUnsigned(digits, 0, U8Max)
         IN  IF v < 0 THEN None ELSE Some(v)

\* F applied to the value of x, computed once
Force(F(_), x) == CHOOSE r \in {F(y) : y \in {x}} : TRUE

PFail == [ok |-> FALSE, val |-> <<>>, rest |-> <<>>]
POk(v, rest) == [ok |-> TRUE, val |-> v, rest |-> rest]

RECURSIVE DigitRun(_, _)
\* number of leading characters of s that are digits in the radix
DigitRun(s, radix) ==
    IF Len(s) = 0 \/ ToDigit(s[1], radix) < 0 THEN 0
    ELSE 1 + DigitRun(Tail(s), radix)

RECURSIVE DigitsValue(_, _, _)
DigitsValue(s, n, radix) ==
    IF n = 0 THEN 0
    ELSE DigitsValue(s, n - 1, radix) * radix + ToDigit(s[n], radix)

\* Parser::read_number(radix, Some(max_digits), allow_zero_prefix) into a type
\* holding 0..max_val
ReadNumber(s, radix, max_digits, allow_zero_prefix, max_val) ==
    LET Digits(n) ==
            IF n = 0 \/ n > max_digits THEN PFail
            ELSE IF ~allow_zero_prefix /\ s[1] = "0" /\ n > 1 THEN PFail
            ELSE IF DigitsValue(s, n, radix) > max_val THEN PFail
            ELSE POk(<<DigitsValue(s, n, radix)>>, DropFirst(s, n))
    IN  Force(Digits, DigitRun(s, radix))

\* Parser::read_separator(sep, index, inner): the input left after the separator,
\* wrapped in Some, or None when the separator is missing
AfterSeparator(s, sep, index) ==
    IF index = 0 THEN Some(s)
    ELSE IF Len(s) > 0 /\ s[1] = sep THEN Some(Tail(s))
    ELSE None

\* read_separator(sep, index, |p| p.read_number(..)) on the value s
ReadSeparatedNumber(s, sep, index, radix, max_digits, allow_zero_prefix, max_val) ==
    LET Inner(a) ==
            IF ~IsSome(a) THEN PFail
            ELSE ReadNumber(Unwrap(a), radix, max_digits, allow_zero_prefix, max_val)
    IN  Force(Inner, AfterSeparator(s, sep, index))

RECURSIVE ReadV4Octets(_, _, _)
ReadV4Octets(s, i, acc) ==
    IF i = V4Bytes THEN POk(acc, s)
    ELSE LET Rest(r) ==
                 IF ~r.ok THEN PFail
                 ELSE ReadV4Octets(r.rest, i + 1, acc \o r.val)
         IN  Force(Rest, ReadSeparatedNumber(s, ".", i, 10, 3, FALSE, U8Max))

\* Parser::read_ipv4_addr
ReadIpv4Addr(s) ==
    LET Octets(v) == ReadV4Octets(v, 0, <<>>)
    IN  Force(Octets, s)

\* <Ipv4Addr as FromStr>::from_str(s).ok()
ParseIpv4Addr(s) ==
    LET Whole(r) == IF r.ok /\ Len(r.rest) = 0 THEN Some(r.val) ELSE None
    IN  IF Len(s) > 15 THEN None ELSE Force(Whole, ReadIpv4Addr(s))

\* <Ipv4Addr as Display>::fmt
FmtIpv4Addr(ip) == Join([i \in 1..V4Bytes |-> DecStr(ip[i])], ".")

RECURSIVE ReadGroups(_, _, _, _)
\* read_groups of Parser::read_ipv6_addr: up to limit 16-bit groups, the last two
\* possibly an embedded IPv4 address
ReadGroups(s, i, limit, groups) ==
    LET Group(g) ==
            IF g.ok THEN ReadGroups(g.rest, i + 1, limit, groups \o g.val)
            ELSE [n |-> i, v4 |-> FALSE, groups |-> groups, rest |-> s]
        Embedded(v4) ==
            IF v4.ok
            THEN [n |-> i + 2, v4 |-> TRUE,
                  groups |-> groups \o <<v4.val[1] * 256 + v4.val[2],
                                         v4.val[3] * 256 + v4.val[4]>>,
                  rest |-> v4.rest]
            ELSE Force(Group, ReadSeparatedNumber(s, ":", i, 16, 4, TRUE, 65535))
        Separated(a) ==
            Force(Embedded, IF i < limit - 1 /\ IsSome(a)
                            THEN ReadIpv4Addr(Unwrap(a)) ELSE PFail)
    IN  IF i >= limit THEN [n |-> i, v4 |-> FALSE, groups |-> groups, rest |-> s]
        ELSE Force(Separated, AfterSeparator(s, ":", i))

SegmentsToBytes(segs) ==
    [i \in 1..V6Bytes |->
        IF i % 2 = 1 THEN segs[(i + 1) \div 2] \div 256
        ELSE segs[i \div 2] % 256]

BytesToSegments(ip) == [k \in 1..8 |-> ip[2 * k - 1] * 256 + ip[2 * k]]

\* Parser::read_ipv6_addr
ReadIpv6Addr(s) ==
    LET Back(head) ==
            LET Concat(tail) ==
                    POk(head.groups
                          \o [k \in 1..(8 - head.n - tail.n) |-> 0]
                          \o tail.groups,
                        tail.rest)
            IN  Force(Concat, ReadGroups(DropFirst(head.rest, 2), 0,
                                         8 - (head.n + 1), <<>>))
        Front(head) ==
            IF head.n = 8 THEN POk(head.groups, head.rest)
            ELSE IF head.v4 THEN PFail
            ELSE IF ~(Len(head.rest) >= 2 /\ head.rest[1] = ":" /\ head.rest[2] = ":")
            THEN PFail
            ELSE Back(head)
    IN  Force(Front, ReadGroups(s, 0, 8, <<>>))

\* <Ipv6Addr as FromStr>::from_str(s).ok()
ParseIpv6Addr(s) ==
    LET Whole(r) ==
            IF r.ok /\ Len(r.rest) = 0 THEN Some(SegmentsToBytes(r.val)) ELSE None
    IN  Force(Whole, ReadIpv6Addr(s))

RECURSIVE LongestZeroRun(_, _, _, _)
\* the scan of <Ipv6Addr as Display>::fmt: first longest run of zero segments
LongestZeroRun(segs, i, cur, best) ==
    LET Grown(c) ==
            LET Longer(b) == LongestZeroRun(segs, i + 1, c, b)
            IN  Force(Longer, IF c.len > best.len THEN c ELSE best)
    IN  IF i > 8 THEN best
        ELSE IF segs[i] = 0
        THEN Force(Grown, [start |-> IF cur.len = 0 THEN i ELSE cur.start,
                           len |-> cur.len + 1])
        ELSE LongestZeroRun(segs, i + 1, [start |-> 0, len |-> 0], best)

FmtSubslice(segs) == Join([k \in 1..Len(segs) |-> HexStr(segs[k])], ":")

\* <Ipv6Addr as Display>::fmt
FmtIpv6Addr(ip) ==
    LET Segments(segs) ==
            LET Compressed(zeroes) ==
                    IF zeroes.len > 1
                    THEN FmtSubslice(SubSeq(segs, 1, zeroes.start - 1))
                           \o <<":", ":">>
                           \o FmtSubslice(SubSeq(segs, zeroes.start + zeroes.len, 8))
                    ELSE FmtSubslice(segs)
            IN  IF SubSeq(segs, 1, 6) = <<0, 0, 0, 0, 0, 65535>>
                THEN <<":", ":", "f", "f", "f", "f", ":">>
                       \o FmtIpv4Addr(SubSeq(ip, 13, 16))
                ELSE Force(Compressed,
                           LongestZeroRun(segs, 1, [start |-> 0, len |-> 0],
                                          [start |-> 0, len |-> 0]))
    IN  Force(Segments, BytesToSegments(ip))

(***************************************************************************)
(* ipv4.rs / ipv6.rs: Display and FromStr of the targets                   *)
(***************************************************************************)
Ipv4Target_fmt(t) ==
    IF IsSome(t.prefix_len)
    THEN FmtIpv4Addr(t.ip) \o <<"/">> \o DecStr(Unwrap(t.prefix_len))
    ELSE FmtIpv4Addr(t.ip)

\* bug: the prefix is never written
Mut_Ipv6Target_fmt(t) == FmtIpv6Addr(t.ip)

Ipv6Target_fmt(t) ==
    IF IsSome(t.prefix_len)
    THEN FmtIpv6Addr(t.ip) \o <<"/">> \o DecStr(Unwrap(t.prefix_len))
    ELSE FmtIpv6Addr(t.ip)

\* bug: a prefix segment that does not parse counts as out of range
Mut_PrefixSegment(parts) ==
    IF Len(parts) >= 2
    THEN (IF IsSome(ParseU8(parts[2])) THEN ParseU8(parts[2]) ELSE Some(U8Max))
    ELSE None

\* parts.next().map(|s| s.parse().ok()).flatten(), the parse being into u8
PrefixSegment(parts) == IF Len(parts) >= 2 THEN ParseU8(parts[2]) ELSE None

Ipv4Target_from_str(s) ==
    LET Parts(parts) ==
            LET Prefix(prefix_len) ==
                    LET Addr(ip) ==
                            IF ~IsSome(ip) THEN Err(Ipv4Error)
                            ELSE IF IsSome(prefix_len)
                                    /\ Unwrap(ip) # ipv4_network_address(
                                                        Unwrap(ip), Unwrap(prefix_len))
                            THEN Err(Ipv4Error)
                            ELSE Ok(Target(Unwrap(ip), prefix_len))
                    IN  IF IsSome(prefix_len) /\ Unwrap(prefix_len) > V4Bits
                        THEN Err(Ipv4Error)
                        ELSE IF Len(parts) >= 3 THEN Err(Ipv4Error)
                        ELSE Force(Addr, ParseIpv4Addr(parts[1]))
            IN  Force(Prefix, PrefixSegment(parts))
    IN  Force(Parts, Split(s, "/"))

Ipv6Target_from_str(s) ==
    LET Parts(parts) ==
            LET Prefix(prefix_len) ==
                    LET Addr(ip) ==
                            LET Network(network) ==
                                    IF IsPanic(network) THEN network
                                    ELSE IF Unwrap(ip) # network.val THEN Err(Ipv6Error)
                                    ELSE Ok(Target(Unwrap(ip), prefix_len))
                            IN  IF ~IsSome(ip) THEN Err(Ipv6Error)
                                ELSE IF ~IsSome(prefix_len)
                                THEN Ok(Target(Unwrap(ip), prefix_len))
                                ELSE Force(Network,
                                           ipv6_network_address(Unwrap(ip),
                                                                Unwrap(prefix_len)))
                    IN  IF IsSome(prefix_len) /\ Unwrap(prefix_len) > V6Bits
                        THEN Err(Ipv6Error)
                        ELSE IF Len(parts) >= 3 THEN Err(Ipv6Error)
                        ELSE Force(Addr, ParseIpv6Addr(parts[1]))
            IN  Force(Prefix, PrefixSegment(parts))
    IN  Force(Parts, Split(s, "/"))

(***************************************************************************)
(* inet.rs                                                                 *)
(***************************************************************************)
InetV4(t) == [family |-> "V4", target |-> t]
InetV6(t) == [family |-> "V6", target |-> t]

\* bug: the IPv6 parser's error is passed on instead of Other
Mut_InetTarget_from_str(s) ==
    LET Second(v6) ==
            IF IsPanic(v6) THEN v6
            ELSE IF IsOk(v6) THEN Ok(InetV6(v6.val))
            ELSE Err("V6")
        First(v4) ==
            IF IsPanic(v4) THEN v4
            ELSE IF IsOk(v4) THEN Ok(InetV4(v4.val))
            ELSE Force(Second, Ipv6Target_from_str(s))
    IN  Force(First, Ipv4Target_from_str(s))

InetTarget_from_str(s) ==
    LET Second(v6) ==
            IF IsPanic(v6) THEN v6
            ELSE IF IsOk(v6) THEN Ok(InetV6(v6.val))
            ELSE Err("Other")
        First(v4) ==
            IF IsPanic(v4) THEN v4
            ELSE IF IsOk(v4) THEN Ok(InetV4(v4.val))
            ELSE Force(Second, Ipv6Target_from_str(s))
    IN  Force(First, Ipv4Target_from_str(s))

InetTarget_net(it) ==
    IF it.family = "V4" THEN Ipv4Target_net(it.target)
    ELSE Ipv6Target_net(it.target)

InetTarget_fmt(it) ==
    IF it.family = "V4" THEN Ipv4Target_fmt(it.target)
    ELSE Ipv6Target_fmt(it.target)

(***************************************************************************)
(* dns/mod.rs: host-name validation                                        *)
(***************************************************************************)
Letters == {"a", "b", "c", "d", "e", "f", "g", "h", "i", "j", "k", "l", "m",
            "n", "o", "p", "q", "r", "s", "t", "u", "v", "w", "x", "y", "z",
            "A", "B", "C", "D", "E", "F", "G", "H", "I", "J", "K", "L", "M",
            "N", "O", "P", "Q", "R", "S", "T", "U", "V", "W", "X", "Y", "Z"}
DecDigits == {"0", "1", "2", "3", "4", "5", "6", "7", "8", "9"}

\* (?i)^[a-z0-9]([a-z0-9-]{0,61}[a-z0-9])?$
MatchDnsLabelRe(label) ==
    LET n == Len(label)
    IN  /\ n >= 1
        /\ label[1] \in Letters \cup DecDigits
        /\ \/ n = 1
           \/ /\ n - 2 <= LabelMidMax
              /\ \A i \in 2..(n - 1) : label[i] \in Letters \cup DecDigits \cup {"-"}
              /\ label[n] \in Letters \cup DecDigits

\* ^\d+$
MatchDigitsOnlyRe(label) ==
    Len(label) >= 1 /\ \A i \in 1..Len(label) : label[i] \in DecDigits

\* bug: the all-digits test is left out
Mut_is_valid_dns_host_label(label) == MatchDnsLabelRe(label)

is_valid_dns_host_label(label) ==
    MatchDnsLabelRe(label) /\ ~MatchDigitsOnlyRe(label)

RECURSIVE TrimEndMatches(_, _)
\* str::trim_end_matches(c): removes every trailing c
TrimEndMatches(s, c) ==
    IF Len(s) > 0 /\ s[Len(s)] = c THEN TrimEndMatches(SubSeq(s, 1, Len(s) - 1), c)
    ELSE s

is_valid_dns_host(host) ==
    LET h == TrimEndMatches(host, ".")
        labels == Split(h, ".")
    IN  IF Len(h) = 0 THEN FALSE
        ELSE \A i \in 1..Len(labels) : is_valid_dns_host_label(labels[i])

\* rr::Name::from_str (external parser), kept to its structure: the name is cut at
\* the dots, a final dot makes it fully qualified, and an empty label is an error.
\* Its character rules are left out, so that it passes on at least every name the
\* parser passes on.
Name_from_str(s) ==
    LET parts == Split(s, ".")
        fqdn == Len(s) > 0 /\ s[Len(s)] = "."
        labels == IF Len(parts[Len(parts)]) = 0
                  THEN SubSeq(parts, 1, Len(parts) - 1) ELSE parts
    IN  IF \E i \in 1..Len(labels) : Len(labels[i]) = 0 THEN Err("ProtoError")
        ELSE Ok([labels |-> labels, fqdn |-> fqdn])

\* <rr::Name as Display>::fmt: the labels joined by dots, a final dot when fully
\* qualified
Name_to_string(name) ==
    Join(name.labels, ".") \o (IF name.fqdn THEN <<".">> ELSE <<>>)

DnsHostname_new(hostname) ==
    LET name == Name_from_str(hostname)
    IN  IF ~IsOk(name) THEN Err("InvalidInput")
        ELSE IF is_valid_dns_host(Name_to_string(name.val))
        THEN Ok(Name_to_string(name.val))
        ELSE Err("InvalidInput")

(***************************************************************************)
(* dns/mod.rs: resolution                                                  *)
(***************************************************************************)
RECURSIVE Mut_PartitionAddrs(_, _, _)
\* bug: IPv6 addresses are inserted at the front of their list
Mut_PartitionAddrs(addrs, v4, v6) ==
    IF Len(addrs) = 0 THEN [v4 |-> v4, v6 |-> v6]
    ELSE IF addrs[1].family = "V4"
    THEN Mut_PartitionAddrs(Tail(addrs), Append(v4, addrs[1].ip), v6)
    ELSE Mut_PartitionAddrs(Tail(addrs), v4, <<addrs[1].ip>> \o v6)

RECURSIVE PartitionAddrs(_, _, _)
\* the for loop of resolve_blocking
PartitionAddrs(addrs, v4, v6) ==
    IF Len(addrs) = 0 THEN [v4 |-> v4, v6 |-> v6]
    ELSE IF addrs[1].family = "V4"
    THEN PartitionAddrs(Tail(addrs), Append(v4, addrs[1].ip), v6)
    ELSE PartitionAddrs(Tail(addrs), v4, Append(v6, addrs[1].ip))

\* bug: a failed lookup is tried a second time
Mut_resolve_blocking(outcome) ==
    IF IsErr(outcome) THEN [result |-> Err("ProtocolError"), calls |-> 2]
    ELSE [result |-> Ok(PartitionAddrs(outcome.val, <<>>, <<>>)), calls |-> 1]

\* resolve_blocking against a resolver whose answer is `outcome`: the result, and
\* the number of to_socket_addrs calls made
resolve_blocking(outcome) ==
    IF IsErr(outcome) THEN [result |-> Err("ProtocolError"), calls |-> 1]
    ELSE [result |-> Ok(PartitionAddrs(outcome.val, <<>>, <<>>)), calls |-> 1]

\* `.await.map_err(|_| DnsError::ProtocolError)?` on the joined task
resolve_join(joined) ==
    IF IsErr(joined) THEN Err("ProtocolError") ELSE joined.val

(***************************************************************************)
(* Inputs                                                                  *)
(***************************************************************************)
MaxNameLen == 4
MaxAddrs == 3
PadSpread == 2

\* addresses of n bytes: k-1 bytes hi, then byte b, then zeros, the last byte lo
AddrPattern(n, bytes, his, los) ==
    {[i \in 1..n |-> IF i < k THEN hi
                     ELSE IF i = k THEN b
                     ELSE IF i = n THEN lo ELSE 0] :
        k \in 1..n, b \in bytes, hi \in his, lo \in los}

V4Addrs ==
    AddrPattern(V4Bytes, {0, 1, 10, 128, 192, 240, 254, 255}, {255}, {0, 1})
        \cup {<<192, 168, 1, 0>>, <<127, 0, 0, 1>>}

V6Special ==
    {<<32, 1, 13, 184, 0, 0, 0, 0, 0, 0, 0, 0, 0, 0, 0, 0>>,
     <<32, 1, 13, 184, 0, 0, 0, 0, 0, 1, 0, 0, 0, 0, 0, 1>>,
     <<0, 0, 0, 0, 0, 0, 0, 0, 0, 0, 255, 255, 10, 0, 0, 1>>,
     <<0, 0, 0, 0, 0, 0, 0, 0, 0, 0, 0, 0, 10, 0, 0, 1>>,
     <<254, 128, 0, 0, 0, 0, 0, 0, 0, 0, 0, 0, 0, 0, 0, 1>>,
     <<0, 1, 0, 0, 0, 2, 0, 0, 0, 3, 0, 0, 0, 4, 0, 0>>}

V6Addrs ==
    AddrPattern(V6Bytes, {0, 1, 128, 192, 240, 254, 255}, {255}, {0}) \cup V6Special

OptU8 == {None} \cup {Some(p) : p \in U8}

V4TextAddrs == AddrPattern(V4Bytes, {0, 10, 128, 255}, {255}, {0, 1})
V6TextAddrs == AddrPattern(V6Bytes, {0, 128}, {255}, {0, 1}) \cup V6Special

OtherTexts ==
    {<<>>,
     <<"1", ".", "2", ".", "3">>,
     <<"2", "5", "6", ".", "0", ".", "0", ".", "0">>,
     <<"0", "1", ".", "0", ".", "0", ".", "0">>,
     <<"1", ".", "2", ".", "3", ".", "4", ".", "5">>,
     <<"x">>,
     <<"1", ".", "2", ".", "3", ".", "4", " ">>,
     <<"1", ":", ":", "2", ":", ":", "3">>,
     <<":", ":", ":">>,
     <<"1", "2", "3", "4", "5", ":", ":">>,
     <<"1", ":", "2", ":", "3", ":", "4", ":", "5", ":", "6", ":", "7", ":", "8", ":", "9">>,
     <<":", ":", "1", ".", "2", ".", "3", ".", "4">>,
     <<"1", ".", "2", ".", "3", ".", "4", ":", ":", "1">>,
     <<"F", "E", "8", "0", ":", ":", "1">>,
     <<"1", ":", "2", ":", "3", ":", "4", ":", "5", ":", "6", ":", "1", ".", "2", ".", "3", ".", "4">>,
     <<"0", ":", "0", ":", "0", ":", "0", ":", "0", ":", "0", ":", "0", ":", "0">>,
     <<":", ":", "0", "0", "f", "f">>}

AddrTexts ==
    {FmtIpv4Addr(a) : a \in V4TextAddrs} \cup {FmtIpv6Addr(a) : a \in V6TextAddrs}
        \cup OtherTexts

PrefixTexts ==
    {DecStr(n) : n \in {0, 1, 8, 24, 31, 32, 33, 64, 127, 128, 129, 255, 256, 300, 1000}}
        \cup {<<>>,
              <<"a", "b", "c">>,
              <<"-", "1">>,
              <<"+", "8">>,
              <<"0", "8">>,
              <<"0", "1", "2", "8">>,
              <<"8", "x">>,
              <<"+">>,
              <<" ", "8">>}

ParseInputs ==
    AddrTexts
        \cup {a \o <<"/">> \o p : a \in AddrTexts, p \in PrefixTexts}
        \cup {a \o <<"/">> \o p \o <<"/">> \o q :
                a \in {<<"1", "0", ".", "0", ".", "0", ".", "0">>, <<":", ":">>},
                p \in {<<"8">>, <<"a">>, <<>>},
                q \in {<<"8">>, <<>>}}

QuadOctets == {0, 7, 10, 99, 100, 255}

DottedQuad(a, b, c, d) == Join(<<DecStr(a), DecStr(b), DecStr(c), DecStr(d)>>, ".")

DnsAlphabet == {"a", "1", "-", ".", "_"}

RECURSIVE StringsUpTo(_, _)
StringsUpTo(alphabet, n) ==
    IF n = 0 THEN {<<>>}
    ELSE LET shorter == StringsUpTo(alphabet, n - 1)
         IN  shorter \cup {Append(x, c) : x \in shorter, c \in alphabet}

Pad(c, n) == [i \in 1..n |-> c]

\* names holding one label whose length is around the 63-character limit
LongNames ==
    {pre \o Pad(c, n) \o suf :
        pre \in {<<>>, <<"a", ".">>},
        c \in {"a", "1", "-"},
        n \in (LabelMidMax + 2 - PadSpread)..(LabelMidMax + 2 + PadSpread),
        suf \in {<<>>, <<"a">>, <<".">>, <<"-">>, <<".", "a">>, <<"a", ".", "a">>}}

DnsInputs == StringsUpTo(DnsAlphabet, MaxNameLen) \cup LongNames

Hostnames == {<<"a">>, <<"a", ".", "a", "1", ".">>}

SockAddrs == [family : {"V4", "V6"}, ip : {1, 2}]

RECURSIVE SeqsUpTo(_, _)
SeqsUpTo(S, n) ==
    IF n = 0 THEN {<<>>}
    ELSE LET shorter == SeqsUpTo(S, n - 1)
         IN  shorter \cup {Append(x, e) : x \in shorter, e \in S}

\* what to_socket_addrs returns: an io error, or socket addresses in some order
ResolverOutcomes == {Err("io")} \cup {Ok(a) : a \in SeqsUpTo(SockAddrs, MaxAddrs)}

(***************************************************************************)
(* State machine: each step is one call of the public API                  *)
(***************************************************************************)
NoObs == [kind |-> "none"]

\* the accessors, Display and a re-parse, applied to a constructed target
Observe4(r) ==
    LET Rendered(text) ==
            [kind |-> "target", ip |-> r.val.ip, prefix_len |-> r.val.prefix_len,
             is_net |-> IsSome(r.val.prefix_len), net |-> Ipv4Target_net(r.val),
             text |-> text, reparsed |-> Ipv4Target_from_str(text)]
    IN  IF ~IsOk(r) THEN NoObs ELSE Force(Rendered, Ipv4Target_fmt(r.val))

Observe6(r) ==
    LET Rendered(text) ==
            [kind |-> "target", ip |-> r.val.ip, prefix_len |-> r.val.prefix_len,
             is_net |-> IsSome(r.val.prefix_len), net |-> Ipv6Target_net(r.val),
             text |-> text, reparsed |-> Ipv6Target_from_str(text)]
    IN  IF ~IsOk(r) THEN NoObs ELSE Force(Rendered, Ipv6Target_fmt(r.val))

ObserveInet(r) ==
    LET Rendered(text) ==
            [kind |-> "target", ip |-> r.val.target.ip, prefix_len |-> r.val.target.prefix_len,
             is_net |-> IsSome(r.val.target.prefix_len), net |-> InetTarget_net(r.val),
             text |-> text, reparsed |-> InetTarget_from_str(text)]
    IN  IF ~IsOk(r) THEN NoObs ELSE Force(Rendered, InetTarget_fmt(r.val))

\* every behaviour is one call of the API on a fresh value
Idle == op = "init"

Call(name, a, r, o) ==
    /\ op' = name
    /\ arg' = a
    /\ res' = r
    /\ obs' = o
    /\ pc' = "idle"
    /\ attempts' = 0

Init ==
    /\ op = "init"
    /\ arg = <<>>
    /\ res = Ok(<<>>)
    /\ obs = NoObs
    /\ pc = "idle"
    /\ attempts = 0

NewV4 ==
    /\ Idle
    /\ \E ip \in V4Addrs, p \in OptU8 :
        \E r \in {Ipv4Target_new(ip, p)} :
            Call("Ipv4Target::new", [ip |-> ip, prefix_len |-> p], r, Observe4(r))

NewV6 ==
    /\ Idle
    /\ \E ip \in V6Addrs, p \in OptU8 :
        \E r \in {Ipv6Target_new(ip, p)} :
            Call("Ipv6Target::new", [ip |-> ip, prefix_len |-> p], r, Observe6(r))

ParseV4 ==
    /\ Idle
    /\ \E s \in ParseInputs :
        \E r \in {Ipv4Target_from_str(s)} :
            Call("Ipv4Target::from_str", s, r, Observe4(r))

ParseQuad ==
    /\ Idle
    /\ \E a \in QuadOctets, b \in QuadOctets, c \in QuadOctets, d \in QuadOctets :
        \E s \in {DottedQuad(a, b, c, d)} :
            \E r \in {Ipv4Target_from_str(s)} :
                Call("Ipv4Target::from_str", s, r, Observe4(r))

ParseV6 ==
    /\ Idle
    /\ \E s \in ParseInputs :
        \E r \in {Ipv6Target_from_str(s)} :
            Call("Ipv6Target::from_str", s, r, Observe6(r))

ParseInet ==
    /\ Idle
    /\ \E s \in ParseInputs :
        \E r \in {InetTarget_from_str(s)} :
            Call("InetTarget::from_str", s, r, ObserveInet(r))

DnsNew ==
    /\ Idle
    /\ \E s \in DnsInputs :
        Call("DnsHostname::new", s, DnsHostname_new(s),
             [kind |-> "dns",
              normalized |-> IF IsOk(Name_from_str(s))
                             THEN Some(Name_to_string(Name_from_str(s).val))
                             ELSE None])

\* resolve_blocking on the caller's thread
ResolveBlocking ==
    /\ Idle
    /\ \E h \in Hostnames, outcome \in ResolverOutcomes :
        /\ op' = "resolve_blocking"
        /\ arg' = [host |-> h, outcome |-> outcome]
        /\ res' = resolve_blocking(outcome).result
        /\ obs' = NoObs
        /\ pc' = "idle"
        /\ attempts' = resolve_blocking(outcome).calls

\* resolve: the instance is cloned and the closure handed to spawn_blocking
ResolveSpawn ==
    /\ Idle
    /\ \E h \in Hostnames :
        /\ op' = "resolve"
        /\ arg' = [host |-> h]
        /\ res' = Err("pending")
        /\ obs' = NoObs
        /\ pc' = "spawned"
        /\ attempts' = 0

\* the worker runs the closure: resolve_blocking
WorkerRun ==
    /\ pc = "spawned"
    /\ \E outcome \in ResolverOutcomes :
        /\ pc' = "joined"
        /\ obs' = [kind |-> "join", outcome |-> outcome,
                   joined |-> Ok(resolve_blocking(outcome).result)]
        /\ attempts' = attempts + resolve_blocking(outcome).calls
        /\ UNCHANGED <<op, arg, res>>

\* the runtime is shut down before the closure starts: the task is cancelled
TaskCancelled ==
    /\ pc = "spawned"
    /\ pc' = "joined"
    /\ obs' = [kind |-> "join", outcome |-> Err("none"), joined |-> Err("JoinError")]
    /\ UNCHANGED <<op, arg, res, attempts>>

\* the await returns
ResolveAwait ==
    /\ pc = "joined"
    /\ pc' = "done"
    /\ res' = resolve_join(obs.joined)
    /\ UNCHANGED <<op, arg, obs, attempts>>

Next ==
    \/ NewV4
    \/ NewV6
    \/ ParseV4
    \/ ParseQuad
    \/ ParseV6
    \/ ParseInet
    \/ DnsNew
    \/ ResolveBlocking
    \/ ResolveSpawn
    \/ WorkerRun
    \/ TaskCancelled
    \/ ResolveAwait

Spec == Init /\ [][Next]_vars

(***************************************************************************)
(* Vocabulary of the properties                                            *)
(***************************************************************************)
FamilyNew == {"Ipv4Target::new", "Ipv6Target::new"}
FamilyParse == {"Ipv4Target::from_str", "Ipv6Target::from_str"}
Constructors == FamilyNew \cup FamilyParse \cup {"InetTarget::from_str"}

IsV4Op == op \in {"Ipv4Target::new", "Ipv4Target::from_str"}

\* bit width of the family of the call
Width == IF IsV4Op THEN V4Bits ELSE V6Bits

\* bit j of the address, counted from 1 at the most significant bit
BitAt(ip, j) == (ip[((j - 1) \div 8) + 1] \div Pow2(7 - ((j - 1) % 8))) % 2

\* every bit after the first p bits is zero
HostBitsZero(ip, p) == \A j \in (p + 1)..(8 * Len(ip)) : BitAt(ip, j) = 0

\* the address text of the call parsed by the family's address parser
ParsedAddr(text) == IF IsV4Op THEN ParseIpv4Addr(text) ELSE ParseIpv6Addr(text)

\* the target a constructor returned, whatever the constructor
Returned == IF op = "InetTarget::from_str" THEN res.val.target ELSE res.val

IsDecimalText(x) == Len(x) >= 1 /\ \A i \in 1..Len(x) : x[i] \in DecDigits

\* an optional sign and at least one decimal digit
IsIntegerText(x) ==
    \/ IsDecimalText(x)
    \/ Len(x) >= 2 /\ x[1] \in {"+", "-"} /\ IsDecimalText(Tail(x))

RECURSIVE DecimalExceeds(_, _, _)
\* the decimal text x, read after the value acc, is above max
DecimalExceeds(x, acc, max) ==
    IF acc > max THEN TRUE
    ELSE IF Len(x) = 0 THEN FALSE
    ELSE DecimalExceeds(Tail(x), acc * 10 + ToDigit(x[1], 10), max)

(***************************************************************************)
(* C1: for both families, new(A, Some(p)) with p in 0..255 succeeds exactly *)
(* when p is at most the bit width and every bit of A after the first p     *)
(* bits is zero; on success ip() = A, prefix_len() = Some(p), is_net() is   *)
(* true and net() is the network (A, p).  new(A, None) always succeeds and  *)
(* its net() is nothing.                                                    *)
(***************************************************************************)
C1_NewAcceptsExactlyNetworkBases ==
    op \in FamilyNew =>
        IF IsSome(arg.prefix_len)
        THEN /\ IsOk(res) <=> /\ Unwrap(arg.prefix_len) <= Width
                              /\ HostBitsZero(arg.ip, Unwrap(arg.prefix_len))
             /\ IsOk(res) =>
                  /\ obs.ip = arg.ip
                  /\ obs.prefix_len = arg.prefix_len
                  /\ obs.is_net
                  /\ IsOk(obs.net)
                  /\ obs.net.val = Some([addr |-> arg.ip,
                                         prefix_len |-> Unwrap(arg.prefix_len)])
        ELSE /\ IsOk(res)
             /\ obs.ip = arg.ip
             /\ ~obs.is_net
             /\ obs.net = Ok(None)

C1_Witness ==
    /\ op = "Ipv6Target::new"
    /\ arg.prefix_len = Some(9)
    /\ arg.ip[2] = 128
    /\ IsOk(res)
    /\ obs.net.val = Some([addr |-> arg.ip, prefix_len |-> 9])

(***************************************************************************)
(* C2: every target a public constructor returns with a prefix has          *)
(* prefix_len at most the bit width and no bit set after the first          *)
(* prefix_len bits; a string "addr/p" with a valid p whose address has a    *)
(* bit set beyond the first p bits is rejected by the family parser.        *)
(***************************************************************************)
C2_CanonicalBase ==
    /\ (op \in Constructors /\ IsOk(res) /\ IsSome(Returned.prefix_len)) =>
          /\ Unwrap(Returned.prefix_len) <= 8 * Len(Returned.ip)
          /\ HostBitsZero(Returned.ip, Unwrap(Returned.prefix_len))
    /\ op \in FamilyParse =>
          LET parts == Split(arg, "/")
          IN  (Len(parts) = 2 /\ IsSome(ParsedAddr(parts[1]))) =>
                 \A p \in 0..Width :
                     (/\ parts[2] = DecStr(p)
                      /\ ~HostBitsZero(Unwrap(ParsedAddr(parts[1])), p))
                     => res = Err(IF IsV4Op THEN Ipv4Error ELSE Ipv6Error)

C2_Witness ==
    /\ op = "InetTarget::from_str"
    /\ IsOk(res)
    /\ res.val.family = "V6"
    /\ res.val.target.prefix_len = Some(32)
    /\ res.val.target.ip[4] = 184

(***************************************************************************)
(* C3: parsing "addr/n", n a non-negative decimal integer above the bit     *)
(* width (256 and more included), fails with the family's address error.    *)
(***************************************************************************)
C3_OutOfRangePrefixRejected ==
    op \in FamilyParse =>
        LET parts == Split(arg, "/")
        IN  (/\ Len(parts) = 2
             /\ IsDecimalText(parts[2])
             /\ DecimalExceeds(parts[2], 0, Width))
            => res = Err(IF IsV4Op THEN Ipv4Error ELSE Ipv6Error)

(***************************************************************************)
(* C4: parsing "addr/x", x not an integer and addr a valid address of the   *)
(* family, yields the bare target: ip() = addr, no prefix, is_net() false,  *)
(* with no network-base check on addr.                                      *)
(***************************************************************************)
C4_UnparsablePrefixDropped ==
    op \in FamilyParse =>
        LET parts == Split(arg, "/")
        IN  (/\ Len(parts) = 2
             /\ ~IsIntegerText(parts[2])
             /\ IsSome(ParsedAddr(parts[1])))
            => /\ IsOk(res)
               /\ res.val = Target(Unwrap(ParsedAddr(parts[1])), None)
               /\ obs.ip = Unwrap(ParsedAddr(parts[1]))
               /\ obs.prefix_len = None
               /\ ~obs.is_net

C4_Witness ==
    /\ op = "Ipv4Target::from_str"
    /\ arg = <<"2", "5", "5", ".", "2", "5", "5", ".", "1", "2", "8", ".", "1", "/", "a", "b", "c">>
    /\ IsOk(res)
    /\ res.val = Target(<<255, 255, 128, 1>>, None)

(***************************************************************************)
(* C5: InetTarget::from_str(s) is the V4 variant of the IPv4 parser's       *)
(* result when that parser accepts s, the V6 variant of the IPv6 parser's   *)
(* result when only that one accepts s, and fails exactly when both reject  *)
(* s, always with InetError::Other.                                         *)
(***************************************************************************)
C5_InetParseOrder ==
    op = "InetTarget::from_str" =>
        LET v4 == Ipv4Target_from_str(arg)
            v6 == Ipv6Target_from_str(arg)
        IN  /\ IsOk(v4) => IsOk(res) /\ res.val = InetV4(v4.val)
            /\ (~IsOk(v4) /\ IsOk(v6)) => IsOk(res) /\ res.val = InetV6(v6.val)
            /\ (~IsOk(v4) /\ ~IsOk(v6)) <=> ~IsOk(res)
            /\ ~IsOk(res) => IsErr(res) /\ res.val = "Other"

C5_Witness ==
    /\ op = "InetTarget::from_str"
    /\ arg = <<"2", "5", "5", ".", "2", "5", "5", ".", "1", "2", "8", ".", "1", "/", "8">>
    /\ IsErr(Ipv4Target_from_str(arg))
    /\ res = Err("Other")

(***************************************************************************)
(* C6: DnsHostname::new accepts the normalized name exactly when, after a   *)
(* trailing dot is stripped, it is non-empty and every dot-delimited label  *)
(* has 1 to 63 characters, all of them ASCII letters, digits or hyphens,    *)
(* starts and ends with a letter or digit, and is not all digits; every     *)
(* other name is rejected with DnsError::InvalidInput.                      *)
(***************************************************************************)
LabelRule(label) ==
    /\ Len(label) \in 1..(LabelMidMax + 2)
    /\ \A i \in 1..Len(label) : label[i] \in Letters \cup DecDigits \cup {"-"}
    /\ label[1] # "-"
    /\ label[Len(label)] # "-"
    /\ \E i \in 1..Len(label) : label[i] \notin DecDigits

StripTrailingDot(name) ==
    IF Len(name) > 0 /\ name[Len(name)] = "." THEN SubSeq(name, 1, Len(name) - 1)
    ELSE name

HostRule(name) ==
    LET h == StripTrailingDot(name)
        labels == Split(h, ".")
    IN  Len(h) > 0 /\ \A i \in 1..Len(labels) : LabelRule(labels[i])

C6_HostNameRule ==
    (op = "DnsHostname::new" /\ IsSome(obs.normalized)) =>
        /\ IsOk(res) <=> HostRule(Unwrap(obs.normalized))
        /\ IsOk(res) => res.val = Unwrap(obs.normalized)
        /\ ~IsOk(res) => res = Err("InvalidInput")

C6_Witness ==
    /\ op = "DnsHostname::new"
    /\ IsSome(obs.normalized)
    /\ Len(Split(Unwrap(obs.normalized), ".")) = 2
    /\ Len(Split(Unwrap(obs.normalized), ".")[2]) = LabelMidMax + 3
    /\ LabelRule(Split(Unwrap(obs.normalized), ".")[1])
    /\ res = Err("InvalidInput")

(***************************************************************************)
(* C7: resolve_blocking returns as v4 exactly the IPv4 addresses and as v6  *)
(* exactly the IPv6 addresses of the resolver's answer, each in the         *)
(* answer's order; nothing is dropped, duplicated or put in the other list. *)
(***************************************************************************)
IsV4Addr(a) == a.family = "V4"
IsV6Addr(a) == a.family = "V6"
IpsOf(addrs) == [i \in 1..Len(addrs) |-> addrs[i].ip]

C7_PartitionKeepsOrder ==
    (op = "resolve_blocking" /\ IsOk(arg.outcome)) =>
        /\ IsOk(res)
        /\ res.val.v4 = IpsOf(SelectSeq(arg.outcome.val, IsV4Addr))
        /\ res.val.v6 = IpsOf(SelectSeq(arg.outcome.val, IsV6Addr))
        /\ Len(res.val.v4) + Len(res.val.v6) = Len(arg.outcome.val)

C7_Witness ==
    /\ op = "resolve_blocking"
    /\ IsOk(arg.outcome)
    /\ arg.outcome.val = <<[family |-> "V6", ip |-> 2], [family |-> "V4", ip |-> 2],
                           [family |-> "V6", ip |-> 1]>>
    /\ res.val = [v4 |-> <<2>>, v6 |-> <<2, 1>>]

(***************************************************************************)
(* C8 as stated: a finished resolution, blocking or not, has made exactly   *)
(* one resolver attempt.                                                    *)
(***************************************************************************)
Finished == op = "resolve_blocking" \/ (op = "resolve" /\ pc = "done")

C8_ExactlyOneAttempt == Finished => attempts = 1

(***************************************************************************)
(* C8 amended: a resolution makes at most one resolver attempt: exactly one *)
(* in resolve_blocking and whenever the worker runs, none when the          *)
(* background task fails before the worker starts.  Every failure is        *)
(* DnsError::ProtocolError, the non-blocking resolve never returns          *)
(* InvalidInput, and when the worker completes it returns exactly what      *)
(* resolve_blocking produced on the worker.                                 *)
(***************************************************************************)
C8_AtMostOneAttempt ==
    /\ op \in {"resolve_blocking", "resolve"} => attempts <= 1
    /\ op = "resolve_blocking" =>
          /\ attempts = 1
          /\ IsErr(arg.outcome) <=> IsErr(res)
          /\ IsErr(res) => res.val = "ProtocolError"
    /\ (op = "resolve" /\ pc \in {"joined", "done"}) =>
          /\ IsOk(obs.joined) => attempts = 1
          /\ IsErr(obs.joined) => attempts = 0
    /\ (op = "resolve" /\ pc = "done") =>
          /\ IsErr(res) => res.val = "ProtocolError"
          /\ IsErr(obs.joined) => IsErr(res)
          /\ IsOk(obs.joined) =>
                /\ res.tag = obs.joined.val.tag
                /\ res = obs.joined.val
                /\ IsErr(obs.outcome) <=> IsErr(res)
                /\ IsOk(res) => res.val = PartitionAddrs(obs.outcome.val, <<>>, <<>>)

C8_Witness ==
    /\ op = "resolve"
    /\ pc = "done"
    /\ IsErr(obs.joined)
    /\ attempts = 0
    /\ res = Err("ProtocolError")

(***************************************************************************)
(* C9: for every target a family constructor returns, parsing its Display   *)
(* form with the same family's parser succeeds and gives an equal target;   *)
(* and parsing a canonical dotted quad a.b.c.d as an Ipv4Target and         *)
(* rendering the result gives back the same string.                         *)
(***************************************************************************)
QuadInputs ==
    {DottedQuad(a, b, c, d) : a \in QuadOctets, b \in QuadOctets,
                              c \in QuadOctets, d \in QuadOctets}

C9_RoundTrip ==
    /\ (op \in FamilyNew \cup FamilyParse /\ IsOk(res)) =>
          /\ IsOk(obs.reparsed)
          /\ obs.reparsed.val = res.val
    /\ (op = "Ipv4Target::from_str" /\ arg \in QuadInputs) =>
          /\ IsOk(res)
          /\ obs.text = arg

C9_Witness ==
    /\ op = "Ipv6Target::new"
    /\ IsOk(res)
    /\ obs.text = <<"2", "0", "0", "1", ":", "d", "b", "8", ":", ":", "1", ":", "0", ":", "0", ":", "1", "/", "1", "2", "8">>
    /\ IsOk(obs.reparsed)
    /\ obs.reparsed.val = res.val

(***************************************************************************)
(* C10: no address operation panics: new with any address and any prefix    *)
(* 0..255, the parsers on any string, and ip, prefix_len, is_net and net on *)
(* every target they return all end with a value or a typed error; the      *)
(* IPv6 mask is never computed for a prefix above 128.                      *)
(***************************************************************************)
C10_NoPanic ==
    op \in Constructors =>
        /\ ~IsPanic(res)
        /\ IsOk(res) => ~IsPanic(obs.net) /\ ~IsPanic(obs.reparsed)
        /\ (op = "Ipv6Target::new" /\ IsSome(arg.prefix_len)
              /\ Unwrap(arg.prefix_len) > V6Bits) => res = Err(Ipv6Error)

C10_Witness ==
    /\ op = "Ipv6Target::new"
    /\ arg.prefix_len = Some(V6Bits + 1)
    /\ IsPanic(ipv6_subnet_mask(V6Bits + 1))
    /\ res = Err(Ipv6Error)

====
